---- MODULE Spec2Model ----
(***************************************************************************)
(* Model of the wheel picker of react-native-haptic-wheel-picker:          *)
(* src/src/Picker.tsx (gesture handler, decay and spring pipeline) and     *)
(* src/unnamed/part_000 (PickerItem).                                      *)
(*                                                                         *)
(* Offsets, deltas and velocities are integers (one unit = one sample of   *)
(* the pixel grid); item extents are small positive integers so that       *)
(* Math.round meets exact halves.  The reanimated animations are stepped   *)
(* one display frame at a time by FrameDecay, FrameSpring and              *)
(* FrameCancelled.                                                         *)
(***************************************************************************)
EXTENDS Integers, Sequences, FiniteSets, TLC

VARIABLES
    props,          \* the component's props (PickerProps), fixed after mount
    deltas,         \* raw translations the gesture stream can report
    velocities,     \* release velocities the gesture stream can report
    optionsIndex,   \* shared value: committed index
    translateY,     \* shared value: vertical offset
    lastIndexY,     \* shared value: last snapped vertical position
    translateX,     \* shared value: horizontal offset
    lastIndexX,     \* shared value: last snapped horizontal position
    ctx,            \* gesture context: startX or startY once onStart has run
    anim,           \* animation running on the active axis's shared value
    pending,        \* cancelled decays whose callback has not run yet
    gesture,        \* "idle" or "active" (between onStart and onEnd)
    ev,             \* the last step: handler or frame, its input, its effects
    hist,           \* the current gesture: updates so far (0, 1, 2 = several)
    cb              \* public callbacks dispatched since the last release

vars == <<props, deltas, velocities, optionsIndex, translateY, lastIndexY,
          translateX, lastIndexX, ctx, anim, pending, gesture, ev, hist, cb>>

----
\* Bounds of the model.
MaxItems == 3
MaxDelta == 7
MaxVelocity == 2
MaxPending == 1

\* Program constants.
ITEM_HEIGHT == 40
ITEM_WIDTH == 40
DefaultEndOffset == 10
\* ITEM_DISTANCE = 0.285 in thousandths, WHEEL_HEIGHT_MULTIPLIER = 2.6 in
\* tenths.
ITEM_DISTANCE == 285
WHEEL_HEIGHT_MULTIPLIER == 26
\* Fixed point of the item transform: 1 is ONE, Math.PI * 0.5 is HALF_PI.
ONE == 100
HALF_PI == 157

Items == {"a", "b"}
ItemNames == <<"a", "b", "c", "d", "e", "f">>
Undefined == "undefined"

\* Item extents of the small configurations: one even, one odd.
Extents == {2, 3}
EndOffsets == {1, DefaultEndOffset}

----
\* Props accessors.
data == props.data
defaultItem == props.defaultItem
itemHeight == props.itemHeight
itemWidth == props.itemWidth
endOffset == props.endOffset
isHorizontal == props.isHorizontal
hasOnItemSelect == props.onItemSelect
hasIsEndReached == props.isEndReached
itemDistanceMultipier == props.itemDistanceMultipier
wheelHeightMultiplier == WHEEL_HEIGHT_MULTIPLIER

Sign(x) == IF x > 0 THEN 1 ELSE IF x < 0 THEN -1 ELSE 0
Abs(x) == IF x < 0 THEN -x ELSE x
Min(a, b) == IF a < b THEN a ELSE b
Max(a, b) == IF a > b THEN a ELSE b

\* Math.round(num / den), den # 0: the nearest integer, halves towards
\* +Infinity, i.e. floor(num/den + 1/2).
MathRoundUp(num, den) ==
    LET n == IF den < 0 THEN -num ELSE num
        d == IF den < 0 THEN -den ELSE den
    IN  (n + d - 1) \div d

MathRound(num, den) ==
    LET n == IF den < 0 THEN -num ELSE num
        d == IF den < 0 THEN -den ELSE den
    IN  (2 * n + d) \div (2 * d)

\* data.findIndex((item) => item === defaultItem): first position, 0-based,
\* or -1.
RECURSIVE findIndexFrom(_, _, _)
findIndexFrom(seq, x, k) ==
    IF k > Len(seq) THEN -1
    ELSE IF seq[k] = x THEN k - 1
    ELSE findIndexFrom(seq, x, k + 1)

findIndexLast(seq, x) ==
    IF \E k \in 1..Len(seq) : seq[k] = x
    THEN (CHOOSE k \in 1..Len(seq) :
              seq[k] = x /\ \A j \in (k + 1)..Len(seq) : seq[j] # x) - 1
    ELSE -1

findIndex(seq, x) == findIndexFrom(seq, x, 1)

\* let index = ...; index = index === -1 ? 0 : index
index(p) ==
    LET i == findIndex(p.data, p.defaultItem)
    IN  IF i = -1 THEN 0 ELSE i

\* const maximum = (data.length - 1) * -itemHeight
maximum == (Len(data) - 1) * (-itemHeight)

\* data[i] of a JavaScript array
DataAt(i) == IF i \in 0..(Len(data) - 1) THEN data[i + 1] ELSE Undefined

\* Math.min(Math.max(x, maximum), 0)
ClampSwapped(x) == Max(Min(x, maximum), 0)

Clamp(x) == Min(Max(x, maximum), 0)

----
\* PickerItem (src/unnamed/part_000).  Numbers of the transform are records:
\* kind is "finite", "inf" (v is the sign) or "nan"; finite values are in
\* hundredths.
Finite(v) == [kind |-> "finite", v |-> v]
NaN == [kind |-> "nan", v |-> 0]

\* (translateValue + offset) / (itemSize / itemDistanceMultipier), IEEE
\* division: x / 0 is an infinity of the sign of x, 0 / 0 is NaN.
Quotient(sum, itemSize, multiplier) ==
    IF itemSize = 0
    THEN IF sum = 0 THEN NaN ELSE [kind |-> "inf", v |-> Sign(sum)]
    ELSE Finite(Sign(sum) * Sign(itemSize)
                * ((Abs(sum) * multiplier) \div (10 * Abs(itemSize))))

\* Math.max(Math.min(q, Math.PI * 0.5), -Math.PI * 0.5); NaN stays NaN.
ClampAngle(q) ==
    IF q.kind = "nan" THEN NaN
    ELSE IF q.kind = "inf" THEN Finite(q.v * HALF_PI)
    ELSE Finite(Max(Min(q.v, HALF_PI), -HALF_PI))

\* Math.sin of an angle in hundredths of a radian, |angle| <= Math.PI, by
\* Bhaskara's formula 16x(pi - x) / (5 pi^2 - 4x(pi - x)): exact at 0 and
\* at pi/2.
MathSin(a) ==
    IF a.kind # "finite" THEN NaN
    ELSE LET x == Abs(a.v)
             pi == 2 * HALF_PI
             t == x * (pi - x)
         IN  Finite(Sign(a.v) * ((ONE * 16 * t) \div (5 * pi * pi - 4 * t)))

calcValue(translateValue, offset, itemSize, multiplier) ==
    MathSin(ClampAngle(Quotient(translateValue + offset, itemSize, multiplier)))

\* The props Picker passes to each PickerItem: itemHeight={itemWidth},
\* itemWidth={itemWidth}.
PickerItemHeight == itemWidth
PickerItemWidth == itemWidth

\* const offset = index * itemHeight, of the item with 0-based index i
ItemOffset(i) == i * PickerItemHeight

\* The itemSize of the calcValue call of the axis.
ItemSize == IF isHorizontal THEN PickerItemWidth ELSE PickerItemHeight

\* const value = useDerivedValue(...), of the item with index i
value(i) ==
    IF isHorizontal
    THEN calcValue(translateX, ItemOffset(i), PickerItemWidth, itemDistanceMultipier)
    ELSE calcValue(translateY, ItemOffset(i), PickerItemHeight, itemDistanceMultipier)

\* 1 - Math.abs(value.value): opacity and scaleX / scaleY
OneMinusSigned(v) == IF v.kind = "finite" THEN Finite(ONE - v.v) ELSE NaN

OneMinusAbs(v) == IF v.kind = "finite" THEN Finite(ONE - Abs(v.v)) ELSE NaN

opacity(i) == OneMinusAbs(value(i))
scale(i) == OneMinusAbs(value(i))

\* value.value * itemWidth * wheelHeightMultiplier (horizontal) or
\* value.value * itemHeight * wheelHeightMultiplier (vertical), in
\* thousandths.
translation(i) ==
    IF value(i).kind = "finite"
    THEN Finite(value(i).v * ItemSize * wheelHeightMultiplier)
    ELSE NaN

----
\* The active axis.
Offset == IF isHorizontal THEN translateX ELSE translateY
LastIndex == IF isHorizontal THEN lastIndexX ELSE lastIndexY
Start == IF isHorizontal THEN ctx.startX ELSE ctx.startY
ItemExtent == IF isHorizontal THEN itemWidth ELSE itemHeight
ItemCount == Len(data)

NoAnim == [kind |-> "none", velocity |-> 0, toValue |-> 0]

\* withSpring(toValue, SPRING_CONFIG) assigned at offset x: the spring is
\* at rest at once when x is its target.
withSpring(x, toValue) ==
    IF x = toValue THEN NoAnim
    ELSE [kind |-> "spring", velocity |-> 0, toValue |-> toValue]

\* The first evaluation of withDecay({velocity: v, clamp: [maximum, 0]}) at
\* offset x, and each later frame: the offset after the step and whether the
\* decay has finished.  The clamp acts in the direction of the velocity only.
DecayStep(x, v) ==
    IF v < 0 /\ x <= maximum THEN [current |-> maximum, finished |-> TRUE]
    ELSE IF v > 0 /\ x >= 0 THEN [current |-> 0, finished |-> TRUE]
    ELSE [current |-> x, finished |-> v = 0]

\* Exponential deceleration, one frame.
Decelerate(v) == v - Sign(v)

\* The completion callback of the horizontal decay, run at offset x.
decayCallbackX(x) ==
    LET i == MathRound(x, -itemHeight)
    IN  [item |-> DataAt(MathRound(x, -itemHeight)),
         index |-> i,
         end |-> i >= Len(data) - endOffset,
         toValue |-> i * (-itemHeight)]

\* The completion callback of the vertical decay, run at offset x.
decayCallbackY(x) ==
    LET i == MathRound(x, -itemHeight)
    IN  [item |-> DataAt(MathRound(x, -itemHeight)),
         index |-> i,
         end |-> i >= Len(data) - endOffset,
         toValue |-> i * (-itemHeight)]

decayCallback(x) == IF isHorizontal THEN decayCallbackX(x) ELSE decayCallbackY(x)

NoGesture == [updates |-> 0]

\* The step record of a handler or frame that did not run the decay callback.
Quiet(op, input, haptic) ==
    [op |-> op, input |-> input, haptic |-> haptic, called |-> "no",
     item |-> "none", end |-> FALSE, spring |-> FALSE, order |-> <<>>,
     target |-> 0,
     of |-> IF op = "onEnd" THEN hist ELSE NoGesture]

\* What one run of the decay callback does, in the order of its statements:
\* runOnJS(onItemSelect) if provided, runOnJS(isEndReached) if provided,
\* then the assignment of withSpring.
DispatchedSpringFirst ==
    <<"withSpring">>
    \o (IF hasOnItemSelect THEN <<"onItemSelect">> ELSE <<>>)
    \o (IF hasIsEndReached THEN <<"isEndReached">> ELSE <<>>)

Dispatched ==
    (IF hasOnItemSelect THEN <<"onItemSelect">> ELSE <<>>)
    \o (IF hasIsEndReached THEN <<"isEndReached">> ELSE <<>>)
    \o <<"withSpring">>

\* The step record of a handler or frame that ran the decay callback at
\* offset x; how is "finished" or "cancelled", the argument the animation
\* passes to the callback and the callback ignores.  item and end are the
\* arguments of the public callbacks that are provided.
Called(op, input, x, how) ==
    [op |-> op, input |-> input, haptic |-> FALSE, called |-> how,
     item |-> IF hasOnItemSelect THEN decayCallback(x).item ELSE "none",
     end |-> hasIsEndReached /\ decayCallback(x).end,
     spring |-> anim.kind = "spring",
     order |-> Dispatched,
     target |-> decayCallback(x).toValue,
     of |-> IF op = "onEnd" THEN hist ELSE NoGesture]

\* The callback counts after k more runs of the decay callback.
Counted(c, k) ==
    [selects |-> IF hasOnItemSelect THEN c.selects + k ELSE c.selects,
     ends |-> IF hasIsEndReached THEN c.ends + k ELSE c.ends]

NoCalls == [selects |-> 0, ends |-> 0]

SetOffset(x) ==
    IF isHorizontal
    THEN translateX' = x /\ UNCHANGED translateY
    ELSE translateY' = x /\ UNCHANGED translateX

\* Assigning to a shared value cancels the animation running on it; a
\* cancelled decay still owes its callback.
Cancelled == IF anim.kind = "decay" THEN 1 ELSE 0

----
\* The configurations of the gesture model: n distinct items, at least one
\* public callback.
PropsSet ==
    {p \in [data : {SubSeq(ItemNames, 1, n) : n \in 0..MaxItems},
            defaultItem : {"b"},
            itemHeight : Extents,
            itemWidth : Extents,
            endOffset : EndOffsets,
            isHorizontal : BOOLEAN,
            onItemSelect : BOOLEAN,
            isEndReached : BOOLEAN,
            itemDistanceMultipier : {ITEM_DISTANCE}] :
        p.onItemSelect \/ p.isEndReached}

\* The configurations of the mount model: any item list, repeats included.
MountPropsSet ==
    [data : UNION {[1..n -> Items] : n \in 0..MaxItems},
     defaultItem : Items \cup {Undefined},
     itemHeight : Extents,
     itemWidth : Extents,
     endOffset : {DefaultEndOffset},
     isHorizontal : BOOLEAN,
     onItemSelect : {TRUE},
     isEndReached : {TRUE},
     itemDistanceMultipier : {ITEM_DISTANCE}]

\* The configurations of the scenario: 5 items of the default extent.
ScenarioPropsSet ==
    [data : {SubSeq(ItemNames, 1, 5)},
     defaultItem : {Undefined},
     itemHeight : {ITEM_HEIGHT},
     itemWidth : {ITEM_WIDTH},
     endOffset : {DefaultEndOffset},
     isHorizontal : BOOLEAN,
     onItemSelect : {TRUE},
     isEndReached : {TRUE},
     itemDistanceMultipier : {ITEM_DISTANCE}]

\* The configurations of the item transform: the item extent PickerItem
\* receives (itemWidth) may be 0 on the vertical axis; two curvatures.
ItemPropsSet ==
    {p \in [data : {SubSeq(ItemNames, 1, n) : n \in 0..MaxItems},
            defaultItem : {"b"},
            itemHeight : Extents,
            itemWidth : Extents \cup {0},
            endOffset : {DefaultEndOffset},
            isHorizontal : BOOLEAN,
            onItemSelect : {TRUE},
            isEndReached : {TRUE},
            itemDistanceMultipier : {ITEM_DISTANCE, 1000}] :
        p.isHorizontal => p.itemWidth # 0}

\* The configurations of the drag: one extent on both axes, the default item
\* first or second in the list.
DragPropsSet ==
    [data : {SubSeq(ItemNames, 1, n) : n \in 0..MaxItems},
     defaultItem : {"a", "b"},
     itemHeight : Extents,
     itemWidth : Extents,
     endOffset : {DefaultEndOffset},
     isHorizontal : BOOLEAN,
     onItemSelect : {TRUE},
     isEndReached : {TRUE},
     itemDistanceMultipier : {ITEM_DISTANCE}]

Mounted(p) ==
    /\ props = p
    /\ optionsIndex = index(p)
    /\ translateY = index(p) * (-p.itemHeight)
    /\ lastIndexY = index(p) * (-p.itemHeight)
    /\ translateX = index(p) * (-p.itemWidth)
    /\ lastIndexX = index(p) * (-p.itemWidth)
    /\ ctx = <<>>
    /\ anim = NoAnim
    /\ pending = 0
    /\ gesture = "idle"
    /\ ev = Quiet("mount", 0, FALSE)
    /\ hist = NoGesture
    /\ cb = NoCalls

Init ==
    /\ \E p \in PropsSet : Mounted(p)
    /\ deltas = (-MaxDelta)..MaxDelta
    /\ velocities = (-MaxVelocity)..MaxVelocity

InitMount ==
    /\ \E p \in MountPropsSet : Mounted(p)
    /\ deltas = {-2, 2}
    /\ velocities = {-2}

InitItem ==
    /\ \E p \in ItemPropsSet : Mounted(p)
    /\ deltas = (-MaxDelta)..MaxDelta
    /\ velocities = {-MaxVelocity, 0}

InitDrag ==
    /\ \E p \in DragPropsSet : p.itemHeight = p.itemWidth /\ Mounted(p)
    /\ deltas = (-MaxDelta)..MaxDelta
    /\ velocities = (-MaxVelocity)..MaxVelocity

InitScenario ==
    /\ \E p \in ScenarioPropsSet : Mounted(p)
    /\ deltas = {-200, -85, 0, 85}
    /\ velocities = {-MaxVelocity, 0}

----
\* gestureHandler.onStart
onStart ==
    /\ gesture = "idle"
    /\ ctx' = IF isHorizontal
              THEN ("startX" :> optionsIndex * (-itemWidth)) @@ ctx
              ELSE ("startY" :> optionsIndex * (-itemHeight)) @@ ctx
    /\ gesture' = "active"
    /\ ev' = Quiet("onStart", 0, FALSE)
    /\ hist' = [updates |-> 0]
    /\ UNCHANGED <<props, deltas, velocities, optionsIndex, translateY,
                   lastIndexY, translateX, lastIndexX, anim, pending, cb>>

\* gestureHandler.onActive with event.translationX/Y = d
onActive(d) ==
    /\ gesture = "active"
    /\ pending + Cancelled <= MaxPending
    /\ LET x == IF isHorizontal THEN Clamp(ctx.startX + d)
                ELSE Clamp(ctx.startY + d)
           crossed == IF isHorizontal
                      THEN x > lastIndexX + itemWidth \/ x < lastIndexX - itemWidth
                      ELSE x > lastIndexY + itemHeight \/ x < lastIndexY - itemHeight
           i == IF isHorizontal THEN MathRound(x, -itemWidth)
                ELSE MathRound(x, -itemHeight)
       IN  /\ SetOffset(x)
           /\ IF isHorizontal
              THEN /\ lastIndexX' = IF crossed THEN i * (-itemWidth) ELSE lastIndexX
                   /\ UNCHANGED lastIndexY
              ELSE /\ lastIndexY' = IF crossed THEN i * (-itemHeight) ELSE lastIndexY
                   /\ UNCHANGED lastIndexX
           /\ optionsIndex' = IF crossed THEN i ELSE optionsIndex
           /\ ev' = Quiet("onActive", d, crossed)
    /\ pending' = pending + Cancelled
    /\ anim' = NoAnim
    /\ hist' = [hist EXCEPT !.updates = Min(hist.updates + 1, 2)]
    /\ UNCHANGED <<props, deltas, velocities, ctx, gesture, cb>>

\* gestureHandler.onEnd with event.velocityX/Y = v.  The decay is evaluated
\* once when it is assigned; if that finishes it, its callback runs at once.
onEnd(v) ==
    /\ gesture = "active"
    /\ pending + Cancelled <= MaxPending
    /\ gesture' = "idle"
    /\ pending' = pending + Cancelled
    /\ LET i == IF isHorizontal THEN MathRound(translateX, -itemWidth)
                ELSE MathRound(translateY, -itemHeight)
           first == DecayStep(Offset, v)
       IN  /\ SetOffset(first.current)
           /\ IF first.finished
              THEN /\ optionsIndex' = decayCallback(first.current).index
                   /\ anim' = withSpring(first.current,
                                         decayCallback(first.current).toValue)
                   /\ cb' = Counted(NoCalls, 1)
                   /\ ev' = Called("onEnd", v, first.current, "finished")
              ELSE /\ optionsIndex' = i
                   /\ anim' = [kind |-> "decay", velocity |-> v, toValue |-> 0]
                   /\ cb' = NoCalls
                   /\ ev' = Quiet("onEnd", v, FALSE)
    /\ hist' = NoGesture
    /\ UNCHANGED <<props, deltas, velocities, lastIndexY, lastIndexX, ctx>>

\* A display frame in which cancelled decays are pending: each runs its
\* callback with finished = false; the spring the callback assigns cancels the
\* running animation, whose callback runs in the same frame when it is a decay.
FrameCancelled ==
    /\ pending > 0
    /\ optionsIndex' = decayCallback(Offset).index
    /\ anim' = withSpring(Offset, decayCallback(Offset).toValue)
    /\ cb' = Counted(cb, pending + Cancelled)
    /\ pending' = 0
    /\ ev' = Called("frame", 0, Offset, "cancelled")
    /\ UNCHANGED <<props, deltas, velocities, translateY, lastIndexY,
                   translateX, lastIndexX, ctx, gesture, hist>>

\* A display frame of the running decay.
FrameDecay ==
    /\ pending = 0
    /\ anim.kind = "decay"
    /\ LET v == Decelerate(anim.velocity)
           step == DecayStep(Offset + v, v)
       IN  /\ SetOffset(step.current)
           /\ IF step.finished
              THEN /\ optionsIndex' = decayCallback(step.current).index
                   /\ anim' = withSpring(step.current,
                                         decayCallback(step.current).toValue)
                   /\ cb' = Counted(cb, 1)
                   /\ ev' = Called("frame", 0, step.current, "finished")
              ELSE /\ anim' = [anim EXCEPT !.velocity = v]
                   /\ ev' = Quiet("frame", 0, FALSE)
                   /\ UNCHANGED <<optionsIndex, cb>>
    /\ UNCHANGED <<props, deltas, velocities, lastIndexY, lastIndexX, ctx,
                   pending, gesture, hist>>

\* A display frame of the running spring: one step towards its target,
\* without overshoot.
FrameSpring ==
    /\ pending = 0
    /\ anim.kind = "spring"
    /\ LET x == Offset + Sign(anim.toValue - Offset)
       IN  /\ SetOffset(x)
           /\ anim' = IF x = anim.toValue THEN NoAnim ELSE anim
    /\ ev' = Quiet("frame", 0, FALSE)
    /\ UNCHANGED <<props, deltas, velocities, optionsIndex, lastIndexY,
                   lastIndexX, ctx, pending, gesture, hist, cb>>

Next ==
    \/ onStart
    \/ \E d \in deltas : onActive(d)
    \/ \E v \in velocities : onEnd(v)
    \/ FrameCancelled
    \/ FrameDecay
    \/ FrameSpring

Spec == Init /\ [][Next]_vars

SpecMount == InitMount /\ [][Next]_vars

SpecScenario == InitScenario /\ [][Next]_vars

SpecItem == InitItem /\ [][Next]_vars

SpecDrag == InitDrag /\ [][Next]_vars

----
\* What the specification calls the bounds of the active axis.
maxNegativeOffset == (ItemCount - 1) * (-ItemExtent)
SpecClamp(x) == Min(Max(x, maxNegativeOffset), 0)

\* The pipeline has come to rest after a release.
AtRest ==
    /\ gesture = "idle"
    /\ anim.kind = "none"
    /\ pending = 0
    /\ ev.op # "mount"

\* C1: with at least one item, the active-axis offset stays within
\* [(itemCount-1) * -itemExtent, 0] in every reachable state.
C1_OffsetInRange ==
    ItemCount >= 1 => (maxNegativeOffset <= Offset /\ Offset <= 0)

\* C2: each provided public callback is invoked once per release cycle, by a
\* decay that has settled: not while a drag is active, not during the spring,
\* and once the pipeline rests after a release it has been invoked exactly
\* once.
C2_CallbacksOncePerCycle ==
    /\ cb.selects <= 1
    /\ cb.ends <= 1
    /\ ev.called # "no" =>
          (ev.called = "finished" /\ gesture # "active" /\ ~ev.spring)
    /\ AtRest => /\ (hasOnItemSelect => cb.selects = 1)
                 /\ (hasIsEndReached => cb.ends = 1)

\* C3: at decay completion, with i = round(offset / -itemExtent) of the active
\* axis, onItemSelect receives data[i], isEndReached receives
\* i >= itemCount - endOffset, and the committed index is i.
C3_CompletionArguments ==
    ev.called = "finished" =>
        LET i == MathRound(Offset, -ItemExtent)
        IN  /\ hasOnItemSelect => ev.item = DataAt(i)
            /\ hasIsEndReached => ev.end = (i >= ItemCount - endOffset)
            /\ optionsIndex = i

\* C4: with at least one item, the committed index is in [0, itemCount-1] in
\* every reachable state.
C4_IndexInRange ==
    ItemCount >= 1 => optionsIndex \in 0..(ItemCount - 1)

\* C5: onStart captures the live offset as anchor, and an update with raw
\* delta d sets offset = clamp(anchor + d, maxNegativeOffset, 0): the first
\* update of a gesture lands on clamp(liveOffsetAtStart + d, ...).
C5_AnchorIsLiveOffset ==
    /\ ev.op = "onStart" => Start = Offset
    /\ ev.op = "onActive" => Offset = SpecClamp(Start + ev.input)

\* C6: once the pipeline has come to rest after a release, the offset is
\* i * -itemExtent of the active axis, i the committed index.
C6_RestsOnCommittedIndex ==
    AtRest => Offset = optionsIndex * (-ItemExtent)

\* The scenario of C7: a gesture anchored at offset 0 (index 0) whose one
\* update brings the offset to -85 (delta -85) is released with velocity 0.
ScenarioReleased ==
    /\ ItemCount = 5
    /\ ItemExtent = 40
    /\ endOffset = DefaultEndOffset
    /\ ev.op = "onEnd"
    /\ ev.input = 0
    /\ ev.of.updates = 1
    /\ Start = 0
    /\ Offset = -85

\* C7 as stated: the scenario selects index 2 and data[2], and isEndReached
\* receives false.
C7_ScenarioAsStated ==
    ScenarioReleased =>
        /\ optionsIndex = 2
        /\ ev.item = DataAt(2)
        /\ ev.end = FALSE

\* C7 (amended): the scenario selects index 2 = round(85/40), onItemSelect
\* receives data[2], the spring targets -80, and isEndReached receives true
\* (2 >= 5 - 10).
C7_ScenarioSettles ==
    ScenarioReleased =>
        /\ ev.called = "finished"
        /\ optionsIndex = 2
        /\ ev.item = DataAt(2)
        /\ ev.end = TRUE
        /\ anim = [kind |-> "spring", velocity |-> 0, toValue |-> -80]

C7_Witness == ScenarioReleased /\ ev.item = "c" /\ ev.end = TRUE

\* C8: with at least one item, an update whose delta is below
\* -(n-1) * itemExtent leaves the offset at (n-1) * -itemExtent, and a release
\* there with a velocity that does not move it back selects index n-1, passes
\* data[n-1] and, when endOffset >= 1, passes true to isEndReached.
C8_OverDragClampsToTail ==
    ItemCount >= 1 =>
        /\ (ev.op = "onActive" /\ ev.input < -(ItemCount - 1) * ItemExtent) =>
              Offset = maxNegativeOffset
        /\ (ev.op = "onEnd" /\ ev.input <= 0 /\ Offset = maxNegativeOffset) =>
              /\ ev.called = "finished"
              /\ optionsIndex = ItemCount - 1
              /\ hasOnItemSelect => ev.item = data[ItemCount]
              /\ (hasIsEndReached /\ endOffset >= 1) => ev.end = TRUE

\* C9: with an empty item list the offset stays 0 and onItemSelect is never
\* invoked.
C9_EmptyListIsInert ==
    ItemCount = 0 =>
        /\ Offset = 0
        /\ ~(hasOnItemSelect /\ ev.called # "no")

\* C10: after mount the committed index is the first position of defaultItem
\* in data, or 0 when it does not occur; the offset is that index times
\* -itemExtent, and the last-snapped position equals the offset.
C10_InitialIndex ==
    ev.op = "mount" =>
        LET occurs == {j \in 1..ItemCount : data[j] = defaultItem}
            k == IF occurs = {} THEN 0
                 ELSE (CHOOSE j \in occurs : \A m \in occurs : j <= m) - 1
        IN  /\ optionsIndex = k
            /\ Offset = k * (-ItemExtent)
            /\ LastIndex = Offset

C10_Witness ==
    /\ ev.op = "mount"
    /\ optionsIndex = 1
    /\ ItemCount = 3
    /\ data[2] = defaultItem
    /\ data[3] = defaultItem
    /\ Offset = -ItemExtent

\* The haptics fired by the step that led to the current state.
Haptics == IF ev.haptic THEN 1 ELSE 0

\* C11: in a monotonic drag the haptic fires once for each full itemExtent
\* the offset crosses, however the drag is sampled.  Stated for the drags of
\* one update that start at a snapped resting offset: the update fires as
\* many haptics as it crossed full extents.
C11_HapticPerExtentCrossed ==
    [][(/\ gesture = "active"
        /\ hist.updates = 0
        /\ anim.kind = "none"
        /\ pending = 0
        /\ Offset = Start
        /\ LastIndex = Offset
        /\ ev'.op = "onActive")
       => Haptics' = Abs(Offset' - Offset) \div ItemExtent]_vars

\* C13: an update whose clamped offset is at least one itemExtent (exactly
\* one included) away from the position of the last committed index commits
\* round(offset / -itemExtent) and issues one haptic; so after any update the
\* offset is less than one itemExtent away from the committed index's
\* position.
C13_CommitAtOneExtent ==
    [][ev'.op = "onActive" =>
        /\ Abs(Offset' - optionsIndex * (-ItemExtent)) >= ItemExtent =>
              /\ optionsIndex' = MathRound(Offset', -ItemExtent)
              /\ Haptics' = 1
        /\ Abs(Offset' - optionsIndex' * (-ItemExtent)) < ItemExtent]_vars

\* C14: the last snapped offset is the committed index times -itemExtent in
\* every reachable state.
C14_LastSnappedIsCommitted ==
    LastIndex = optionsIndex * (-ItemExtent)

\* C15: a haptic is issued only by an update that changes the committed
\* index: an update whose round(offset / -itemExtent) is the index committed
\* before it fires none.
C15_HapticOnlyOnIndexChange ==
    [][ev'.op = "onActive" =>
        /\ Haptics' = 1 => optionsIndex' # optionsIndex
        /\ MathRound(Offset', -ItemExtent) = optionsIndex => Haptics' = 0]_vars

\* C12: for a nonzero item extent the transform's normalized value of every
\* item is a number in [-1, 1], opacity and scale are in [0, 1], and the
\* cross-axis translation is within itemExtent * wheelHeightMultiplier of 0.
C12_TransformInRange ==
    ItemSize # 0 =>
        \A i \in 0..(ItemCount - 1) :
            /\ value(i).kind = "finite"
            /\ -ONE <= value(i).v /\ value(i).v <= ONE
            /\ opacity(i).kind = "finite"
            /\ 0 <= opacity(i).v /\ opacity(i).v <= ONE
            /\ scale(i).kind = "finite"
            /\ 0 <= scale(i).v /\ scale(i).v <= ONE
            /\ translation(i).kind = "finite"
            /\ Abs(translation(i).v) <= ONE * Abs(ItemSize) * wheelHeightMultiplier

\* A drag has put one item past the quarter turn (clamped, invisible), one
\* item in focus and one in between.
C12_Witness ==
    /\ ev.op = "onActive"
    /\ ItemSize # 0
    /\ \E i, j, k \in 0..(ItemCount - 1) :
          /\ Quotient(Offset + ItemOffset(i), ItemSize, itemDistanceMultipier).v
                 < -HALF_PI
          /\ value(i).v = -ONE
          /\ opacity(i).v = 0
          /\ value(j).v = 0
          /\ opacity(j).v = ONE
          /\ -ONE < value(k).v /\ value(k).v < 0

\* C16: the horizontal picker with itemWidth w behaves as the vertical
\* picker with itemHeight w: the clamp bound, the committed index, the
\* selected item, the end flag and the spring target are all computed with
\* w, whatever itemHeight is.
C16_HorizontalUsesItemWidth ==
    isHorizontal =>
        LET w == itemWidth
            i == MathRound(Offset, -w)
        IN  /\ ev.op = "onActive" =>
                  Offset = Min(Max(Start + ev.input, (ItemCount - 1) * (-w)), 0)
            /\ ev.called # "no" =>
                  /\ optionsIndex = i
                  /\ hasOnItemSelect => ev.item = DataAt(i)
                  /\ hasIsEndReached => ev.end = (i >= ItemCount - endOffset)
                  /\ ev.target = i * (-w)

\* C17: whenever the wheel rests on the committed index k, at offset
\* k * -itemExtent of the active axis, item k's static position cancels the
\* offset and its normalized value is 0, and no other item's is.
C17_CommittedItemInFocus ==
    (/\ ItemCount >= 1
     /\ gesture = "idle" /\ anim.kind = "none" /\ pending = 0
     /\ optionsIndex \in 0..(ItemCount - 1)
     /\ Offset = optionsIndex * (-ItemExtent))
    => /\ Offset + ItemOffset(optionsIndex) = 0
       /\ value(optionsIndex) = Finite(0)
       /\ \A i \in 0..(ItemCount - 1) :
              i # optionsIndex => value(i) # Finite(0)

\* C18: for an item extent of 0 the normalized value of every item is 0,
\* never NaN: opacity 1, scale 1, translation 0.
C18_ZeroExtentIsNeutral ==
    ItemSize = 0 =>
        \A i \in 0..(ItemCount - 1) :
            /\ value(i) = Finite(0)
            /\ opacity(i) = Finite(ONE)
            /\ scale(i) = Finite(ONE)
            /\ translation(i) = Finite(0)

\* a is dispatched before b in the last run of the decay callback
Before(a, b) ==
    \A m, n \in DOMAIN ev.order :
        ev.order[m] = a /\ ev.order[n] = b => m < n

\* C19: a run of the decay-completion callback dispatches onItemSelect before
\* isEndReached and both before it starts the spring; the item, the end flag
\* and the spring target all come from one index, the rounding of the one
\* offset the callback ran at.
C19_CompletionOrder ==
    ev.called # "no" =>
        /\ Before("onItemSelect", "isEndReached")
        /\ Before("onItemSelect", "withSpring")
        /\ Before("isEndReached", "withSpring")
        /\ \E n \in DOMAIN ev.order : ev.order[n] = "withSpring"
        /\ hasOnItemSelect <=> \E n \in DOMAIN ev.order : ev.order[n] = "onItemSelect"
        /\ hasIsEndReached <=> \E n \in DOMAIN ev.order : ev.order[n] = "isEndReached"
        /\ \E e \in {itemHeight, itemWidth} :
              LET i == MathRound(Offset, -e)
              IN  /\ optionsIndex = i
                  /\ hasOnItemSelect => ev.item = DataAt(i)
                  /\ hasIsEndReached => ev.end = (i >= ItemCount - endOffset)
                  /\ ev.target = i * (-e)

\* A decay ran out between two items: both callbacks were dispatched, then
\* the spring started towards the last item.
C19_Witness ==
    /\ ev.called = "finished"
    /\ ~isHorizontal
    /\ ev.op = "frame"
    /\ ev.order = <<"onItemSelect", "isEndReached", "withSpring">>
    /\ ItemCount = 3
    /\ ev.item = "c"
    /\ ev.end
    /\ anim.kind = "spring"
    /\ anim.toValue = ev.target
    /\ Offset # ev.target

\* C20: for a fixed anchor and at least one item, the offset of an update,
\* clamp(anchor + d, (itemCount-1) * -itemExtent, 0), does not decrease when
\* d grows and is always within [(itemCount-1) * -itemExtent, 0].
C20_ClampMonotoneInRange ==
    (ItemCount >= 1 /\ gesture = "active") =>
        \A d1, d2 \in deltas :
            /\ d1 <= d2 => Clamp(Start + d1) <= Clamp(Start + d2)
            /\ maxNegativeOffset <= Clamp(Start + d1)
            /\ Clamp(Start + d1) <= 0

====
